---- MODULE Spec2Model ----
(***************************************************************************)
(* Model of src/src/gemini_copilot_mcp/server.py: the session state, the   *)
(* four tool handlers (initialize_gemini_bridge, list_capabilities,        *)
(* ask_gemini, smart_context_summary) and their helpers.                   *)
(*                                                                         *)
(* Text is modelled at character level: a Python str is a sequence of      *)
(* one-character strings ("U+274C" stands for the one character U+274C).   *)
(* A handler is a coroutine: it runs atomically between its await points,  *)
(* and handlers of concurrent tool calls interleave only at those points.  *)
(***************************************************************************)
EXTENDS Integers, Sequences, FiniteSets, TLC

VARIABLES
    State,            \* STATE, the SessionState singleton (server.py:21-36)
    env,              \* the host filesystem the server reads (policy and config files)
    calls,            \* the tool calls in flight: one coroutine frame per call slot
    requested_model,  \* argument of a stand-alone _validate_model application
    safe_model        \* its result

vars == <<State, env, calls, requested_model, safe_model>>

\* ---------------------------------------------------------------- bounds

\* Longest model identifier enumerated letter by letter for _validate_model.
MaxLen == 5

\* Longest target_files list enumerated for smart_context_summary.
MaxFiles == 2

\* ---------------------------------------------------------------- text

\* Python's None, for Optional[str] and Optional[Path] values.
None == <<"<None>">>

\* Python truthiness of an Optional[str]: None and "" are falsy.
Truthy(s) == s /= None /\ s /= <<>>

WhiteSpace == {" ", "\n", "\t", "\r"}

UpperToLower ==
    [c \in {"A", "F", "H", "L", "S"} |->
        CASE c = "A" -> "a" [] c = "F" -> "f" [] c = "H" -> "h"
          [] c = "L" -> "l" [] c = "S" -> "s"]

\* str.lower(), character by character.
Lower(s) ==
    [i \in 1..Len(s) |-> IF s[i] \in DOMAIN UpperToLower THEN UpperToLower[s[i]] ELSE s[i]]

\* Python's `sub in s` for strings.
Contains(sub, s) ==
    \E i \in 0..(Len(s) - Len(sub)) : SubSeq(s, i + 1, i + Len(sub)) = sub

\* str.strip(): leading and trailing whitespace removed.
RECURSIVE LStrip(_)
LStrip(s) == IF s /= <<>> /\ Head(s) \in WhiteSpace THEN LStrip(Tail(s)) ELSE s

RECURSIVE RStrip(_)
RStrip(s) ==
    IF s /= <<>> /\ s[Len(s)] \in WhiteSpace THEN RStrip(SubSeq(s, 1, Len(s) - 1)) ELSE s

Strip(s) == RStrip(LStrip(s))

\* sep.join(parts)
RECURSIVE Join(_, _)
Join(sep, parts) ==
    IF parts = <<>> THEN <<>>
    ELSE IF Len(parts) = 1 THEN parts[1]
    ELSE parts[1] \o sep \o Join(sep, Tail(parts))

\* All sequences over S of length at most n.
SeqsUpTo(S, n) == UNION {[1..k -> S] : k \in 0..n}

\* ---------------------------------------------------------------- configuration

\* "gemini-2.5-pro"
DEFAULT_MODEL ==
    <<"g", "e", "m", "i", "n", "i", "-", "2", ".", "5", "-", "p", "r", "o">>

\* "gemini-2.5-flash"
FALLBACK_FLASH_MODEL ==
    <<"g", "e", "m", "i", "n", "i", "-", "2", ".", "5", "-", "f", "l", "a", "s", "h">>

\* "gemini-3-pro-preview"
GEMINI_3_PRO_PREVIEW ==
    <<"g", "e", "m", "i", "n", "i", "-", "3", "-", "p", "r", "o", "-", "p", "r", "e", "v", "i", "e", "w">>

\* "gemini-3-flash-preview"
GEMINI_3_FLASH_PREVIEW ==
    <<"g", "e", "m", "i", "n", "i", "-", "3", "-", "f", "l", "a", "s", "h", "-", "p", "r", "e", "v", "i", "e", "w">>

\* SessionState.available_models, in list order.
available_models ==
    <<GEMINI_3_PRO_PREVIEW, GEMINI_3_FLASH_PREVIEW, DEFAULT_MODEL, FALLBACK_FLASH_MODEL>>

\* Python's `x in lst`.
InList(x, lst) == \E i \in 1..Len(lst) : lst[i] = x

\* "flash"
FLASH == <<"f", "l", "a", "s", "h">>

\* ---------------------------------------------------------------- model validator

\* _validate_model with the lowercasing left out (a plausible slip).
ValidateModelCaseSensitive(requested) ==
    IF InList(requested, available_models) THEN requested
    ELSE IF Contains(FLASH, requested) THEN FALLBACK_FLASH_MODEL
    ELSE DEFAULT_MODEL

\* _validate_model(requested_model, ctx): the returned model (the warning it
\* prints changes no state).
_validate_model(requested) ==
    IF InList(requested, available_models) THEN requested
    ELSE IF Contains(FLASH, Lower(requested)) THEN FALLBACK_FLASH_MODEL
    ELSE DEFAULT_MODEL

\* The model identifiers a caller may request: the allow-list, every string of
\* at most MaxLen letters of ModelAlphabet, and some stale or invented names.
ModelAlphabet == {"f", "l", "a", "s", "h", "F", "x"}

\* "Flash-9"
FLASH_9 == <<"F", "l", "a", "s", "h", "-", "9">>

\* "gpt-4"
GPT_4 == <<"g", "p", "t", "-", "4">>

\* "GEMINI-2.5-FLASH" (an allow-list name in the wrong case)
UPPER_FLASH ==
    <<"G", "E", "M", "I", "N", "I", "-", "2", ".", "5", "-", "F", "L", "A", "S", "H">>

\* "gemini-2.5-pro " (an allow-list name with a trailing blank)
PRO_BLANK ==
    <<"g", "e", "m", "i", "n", "i", "-", "2", ".", "5", "-", "p", "r", "o", " ">>

ModelRequests ==
    {available_models[i] : i \in 1..Len(available_models)}
        \cup SeqsUpTo(ModelAlphabet, MaxLen)
        \cup {FLASH_9, GPT_4, UPPER_FLASH, PRO_BLANK}

\* ---------------------------------------------------------------- host environment

\* Directories and files of the host. ProcessCwd is what Path.cwd() returns.
ProjA == "/proj/a"
ProjB == "/proj/b"
ProcessCwd == "/srv"
ReadmeFile == "/proj/a/README.md"
MissingDir == "/nope"

\* What Path.exists() / is_dir() see for a resolved path.
PathKind(p) ==
    CASE p \in {ProjA, ProjB, ProcessCwd} -> "dir"
      [] p = ReadmeFile -> "file"
      [] OTHER -> "missing"

\* Path(cwd).resolve(): absolute, "." and ".." folded.
Resolve(p) ==
    CASE p = "." -> ProcessCwd
      [] p = "/proj/b/../a" -> ProjA
      [] OTHER -> p

\* "RULE A", "RULE B", "RULE C"
RULE_A == <<"R", "U", "L", "E", " ", "A">>
RULE_B == <<"R", "U", "L", "E", " ", "B">>
RULE_C == <<"R", "U", "L", "E", " ", "C">>

\* The AGENTS.md of a directory: absent, present but unreadable, or its text.
Absent == [kind |-> "absent", text |-> <<>>]
Unreadable == [kind |-> "unreadable", text |-> <<>>]
TextFile(t) == [kind |-> "text", text |-> t]

\* A candidate configuration file: missing, not JSON ("malformed"), JSON whose
\* "mcpServers" is not an object ("badservers"), a JSON object without
\* "mcpServers" ("nokey"), or a JSON object whose mcpServers has the keys `tools`.
ConfigFile(kind, tools) == [kind |-> kind, tools |-> tools]

\* _load_config_safely's candidate paths, in order.
ConfigPaths == <<"~/.gemini/config.json", "~/.gemini/settings.json">>

ConfigFiles ==
    {ConfigFile(k, <<>>) : k \in {"missing", "malformed", "badservers", "nokey"}}
        \cup {ConfigFile("tools", <<"github">>), ConfigFile("tools", <<"jira", "slack">>)}

Dirs == {ProjA, ProjB, ProcessCwd}

\* The AGENTS.md that `root / "AGENTS.md"` names: only a directory holds one.
AgentsFileOf(root) == IF root \in Dirs THEN env.agents[root] ELSE Absent

\* ---------------------------------------------------------------- executable locator

\* "/usr/bin/gemini": where shutil.which finds the executable when PATH has it.
WHICH_GEMINI ==
    <<"/", "u", "s", "r", "/", "b", "i", "n", "/", "g", "e", "m", "i", "n", "i">>

\* os.path.expanduser("~/.local/bin/gemini")
HOME_LOCAL_GEMINI ==
    <<"/", "h", "o", "m", "e", "/", "m", "e", "/", ".", "l", "o", "c", "a", "l", "/", "b", "i", "n", "/", "g", "e", "m", "i", "n", "i">>

\* "/usr/local/bin/gemini"
USR_LOCAL_GEMINI ==
    <<"/", "u", "s", "r", "/", "l", "o", "c", "a", "l", "/", "b", "i", "n", "/", "g", "e", "m", "i", "n", "i">>

\* "/opt/homebrew/bin/gemini"
HOMEBREW_GEMINI ==
    <<"/", "o", "p", "t", "/", "h", "o", "m", "e", "b", "r", "e", "w", "/", "b", "i", "n", "/", "g", "e", "m", "i", "n", "i">>

possible_paths == <<HOME_LOCAL_GEMINI, USR_LOCAL_GEMINI, HOMEBREW_GEMINI>>

\* What a lookup sees: shutil.which's answer (None when PATH has no gemini) and
\* the fallback paths that exist.
Lookups == [which : {None, WHICH_GEMINI}, existing : SUBSET {possible_paths[i] : i \in 1..3}]

\* _get_gemini_path(): the path found, or None for the FileNotFoundError it raises.
_get_gemini_path(lookup) ==
    IF lookup.which /= None THEN lookup.which
    ELSE IF \E i \in 1..Len(possible_paths) : possible_paths[i] \in lookup.existing
         THEN possible_paths[CHOOSE i \in 1..Len(possible_paths) :
                  /\ possible_paths[i] \in lookup.existing
                  /\ \A j \in 1..(i - 1) : possible_paths[j] \notin lookup.existing]
         ELSE None

\* ---------------------------------------------------------------- config loader

\* One round of _load_config_safely's loop over paths[i..]: a file that exists
\* and parses ends the loop (break), adding its mcpServers keys if it has them;
\* a file whose read raises is skipped (except: pass) and the next one is tried.
RECURSIVE LoadFrom(_, _)
LoadFrom(i, mcps) ==
    IF i > Len(ConfigPaths) THEN mcps
    ELSE LET f == env.config[i] IN
         CASE f.kind = "missing" -> LoadFrom(i + 1, mcps)
           [] f.kind \in {"malformed", "badservers"} -> LoadFrom(i + 1, mcps)
           [] f.kind = "nokey" -> mcps
           [] f.kind = "tools" -> mcps \o f.tools

\* _load_config_safely stopping at the first file that exists, readable or not.
LoadConfigFirstOnly ==
    IF \E i \in 1..Len(ConfigPaths) : env.config[i].kind /= "missing"
    THEN LET i == CHOOSE k \in 1..Len(ConfigPaths) :
                      /\ env.config[k].kind /= "missing"
                      /\ \A j \in 1..(k - 1) : env.config[j].kind = "missing"
         IN env.config[i].tools
    ELSE <<>>

\* _load_config_safely(): the auxiliary tool names found.
_load_config_safely == LoadFrom(1, <<>>)

\* ---------------------------------------------------------------- session state

\* Optional[Path] None.
NoPath == "<None>"

\* SessionState's class attributes (server.py:23-26): the state after construction.
InitialState ==
    [initialized |-> FALSE, cwd |-> NoPath, agents_rules |-> None,
     available_gemini_mcps |-> <<>>]

\* agents_file.exists() / read_text of initialize_gemini_bridge (server.py:125-132):
\* the text, or None when the file is absent or its read raises.
ReadAgentsRules(root) ==
    LET f == AgentsFileOf(root) IN IF f.kind = "text" THEN f.text ELSE None

\* initialize_gemini_bridge's writes with the tool names added to the list
\* already held instead of replacing it.
InitializeWritesAppending(st, root) ==
    [st EXCEPT !.available_gemini_mcps = @ \o _load_config_safely,
               !.agents_rules = ReadAgentsRules(root),
               !.cwd = root,
               !.initialized = TRUE]

\* initialize_gemini_bridge's writes with the session marked initialized only
\* when the root is a directory.
InitializeWritesOnlyDirectories(st, root) ==
    [st EXCEPT !.available_gemini_mcps = _load_config_safely,
               !.agents_rules = ReadAgentsRules(root),
               !.cwd = root,
               !.initialized = @ \/ PathKind(root) = "dir"]


\* initialize_gemini_bridge's writes with the policy text read only for a
\* session that is not initialized yet.
InitializeWritesKeepsPolicy(st, root) ==
    [st EXCEPT !.available_gemini_mcps = _load_config_safely,
               !.agents_rules = IF st.initialized THEN @ ELSE ReadAgentsRules(root),
               !.cwd = root,
               !.initialized = TRUE]


\* The SessionState writes of initialize_gemini_bridge (server.py:123-135) for
\* the root it settled on; no await lies between them.
InitializeWrites(st, root) ==
    [st EXCEPT !.available_gemini_mcps = _load_config_safely,
               !.agents_rules = ReadAgentsRules(root),
               !.cwd = root,
               !.initialized = TRUE]

\* _verify_init's writes without the one that marks the session initialized.
AutoInitWritesUnmarked(st) ==
    [st EXCEPT !.available_gemini_mcps = _load_config_safely,
               !.cwd = ProcessCwd]


\* The SessionState writes of _verify_init after its warning (server.py:98-100).
AutoInitWrites(st) ==
    [st EXCEPT !.available_gemini_mcps = _load_config_safely,
               !.cwd = ProcessCwd,
               !.initialized = TRUE]

\* ---------------------------------------------------------------- call frames

NoArgs ==
    [cwd |-> NoPath, prompt |-> <<>>, model |-> <<>>, system_instruction |-> None,
     target_files |-> <<>>, focus |-> <<>>]

NoData == [root |-> NoPath, agents |-> <<>>, models |-> <<>>, tools |-> <<>>, policy_active |-> FALSE]

NoChild == [returncode |-> 0, stdout |-> [ok |-> TRUE, text |-> <<>>], stderr |-> [ok |-> TRUE, text |-> <<>>]]

\* What a handler hands back: kind "text" (a str result), "json" (the object
\* list_capabilities serialises), "report" (initialize's status text, by its
\* interpolated values) or "raise" (an exception leaves the handler).
NoResult == [kind |-> "none", text |-> <<>>, data |-> NoData]
TextResult(t) == [kind |-> "text", text |-> t, data |-> NoData]
Raise(msg) == [kind |-> "raise", text |-> msg, data |-> NoData]

\* A call slot with no call in it. `written` is the session state as the call
\* left it by its own SessionState writes; InitialState while it has written
\* nothing (every write sets initialized). `rules` is STATE.agents_rules as read
\* for the command and `rules_cwd` the STATE.cwd of that moment; `proc_cwd` is
\* STATE.cwd as read for the spawn.
Idle ==
    [op |-> "idle", pc |-> "idle", args |-> NoArgs, initialized_at_call |-> FALSE,
     root |-> NoPath, written |-> InitialState,
     executable |-> <<>>, rules |-> None, rules_cwd |-> NoPath, cmd |-> <<>>,
     proc_cwd |-> NoPath, child |-> NoChild,
     result |-> NoResult]

\* The call slots: at most this many tool calls are in flight together.
Calls == {1, 2}

\* ---------------------------------------------------------------- literals

\* "--model", "--yolo", "--system"
ARG_MODEL == <<"-", "-", "m", "o", "d", "e", "l">>
ARG_YOLO == <<"-", "-", "y", "o", "l", "o">>
ARG_SYSTEM == <<"-", "-", "s", "y", "s", "t", "e", "m">>

\* "=== PROJECT RULES (AGENTS.md) ==="
RULES_HEADER ==
    <<"=", "=", "=", " ", "P", "R", "O", "J", "E", "C", "T", " ", "R", "U", "L", "E", "S", " ", "(", "A", "G", "E", "N", "T", "S", ".", "m", "d", ")", " ", "=", "=", "=">>

\* "=== END RULES ==="
RULES_FOOTER ==
    <<"=", "=", "=", " ", "E", "N", "D", " ", "R", "U", "L", "E", "S", " ", "=", "=", "=">>

\* "Read files. Extract ONLY info about: '"   and   "'. Be concise."
SUMMARY_PROMPT_HEAD ==
    <<"R", "e", "a", "d", " ", "f", "i", "l", "e", "s", ".", " ", "E", "x", "t", "r", "a", "c", "t", " ", "O", "N", "L", "Y", " ", "i", "n", "f", "o", " ", "a", "b", "o", "u", "t", ":", " ", "'">>
SUMMARY_PROMPT_TAIL ==
    <<"'", ".", " ", "B", "e", " ", "c", "o", "n", "c", "i", "s", "e", ".">>

\* "<U+274C> Gemini Error: "
GEMINI_ERROR == <<"U+274C", " ", "G", "e", "m", "i", "n", "i", " ", "E", "r", "r", "o", "r", ":", " ">>

\* "Execution Error: "
EXECUTION_ERROR == <<"E", "x", "e", "c", "u", "t", "i", "o", "n", " ", "E", "r", "r", "o", "r", ":", " ">>

\* "<U+1F4A1> **Smart Summary**:\n"
SMART_SUMMARY ==
    <<"U+1F4A1", " ", "*", "*", "S", "m", "a", "r", "t", " ", "S", "u", "m", "m", "a", "r", "y", "*", "*", ":", "\n">>

\* "Error: "
ERROR_PREFIX == <<"E", "r", "r", "o", "r", ":", " ">>

\* "Critical: 'gemini' executable not found in PATH."
NOT_FOUND_MSG ==
    <<"C", "r", "i", "t", "i", "c", "a", "l", ":", " ", "'", "g", "e", "m", "i", "n", "i", "'", " ", "e", "x", "e", "c", "u", "t", "a", "b", "l", "e", " ", "n", "o", "t", " ", "f", "o", "u", "n", "d", " ", "i", "n", " ", "P", "A", "T", "H", ".">>

\* str(e) of the exceptions the child process machinery raises:
\* NotADirectoryError (the cwd is no directory), PermissionError (the spawn is
\* refused), ConnectionResetError (communicate fails), UnicodeDecodeError.
NOT_A_DIRECTORY_MSG ==
    <<"[", "E", "r", "r", "n", "o", " ", "2", "0", "]", " ", "N", "o", "t", " ", "a", " ", "d", "i", "r", "e", "c", "t", "o", "r", "y">>
PERMISSION_MSG ==
    <<"[", "E", "r", "r", "n", "o", " ", "1", "3", "]", " ", "P", "e", "r", "m", "i", "s", "s", "i", "o", "n", " ", "d", "e", "n", "i", "e", "d">>
CONNECTION_LOST_MSG ==
    <<"C", "o", "n", "n", "e", "c", "t", "i", "o", "n", " ", "l", "o", "s", "t">>
DECODE_MSG ==
    <<"'", "u", "t", "f", "-", "8", "'", " ", "c", "o", "d", "e", "c", " ", "c", "a", "n", "'", "t", " ", "d", "e", "c", "o", "d", "e", " ", "b", "y", "t", "e", " ", "0", "x", "f", "f">>

\* "Loaded" / "None" of the status report
LOADED == <<"L", "o", "a", "d", "e", "d">>
NONE_TEXT == <<"N", "o", "n", "e">>

\* ---------------------------------------------------------------- command builder

\* The blocks ask_gemini collects in sys_prompt (server.py:178-185).
SysPromptBlocks(rules, system_instruction) ==
    (IF Truthy(rules) THEN <<RULES_HEADER, rules, RULES_FOOTER>> ELSE <<>>)
        \o (IF Truthy(system_instruction) THEN <<system_instruction>> ELSE <<>>)

\* ask_gemini's command with the --system pair appended whatever sys_prompt holds.
AskCommandAlwaysSystem(args, rules, executable) ==
    <<executable, args.prompt, ARG_MODEL, _validate_model(args.model), ARG_YOLO>>
        \o <<ARG_SYSTEM, Join(<<"\n", "\n">>, SysPromptBlocks(rules, args.system_instruction))>>

\* ask_gemini's command with the blocks joined by a single newline.
AskCommandSingleNewline(args, rules, executable) ==
    LET base == <<executable, args.prompt, ARG_MODEL, _validate_model(args.model), ARG_YOLO>>
        sys_prompt == SysPromptBlocks(rules, args.system_instruction)
    IN IF sys_prompt /= <<>>
       THEN base \o <<ARG_SYSTEM, Join(<<"\n">>, sys_prompt)>>
       ELSE base

\* ask_gemini's command with the model as the caller gave it, not validated.
AskCommandUnvalidatedModel(args, rules, executable) ==
    <<executable, args.prompt, ARG_MODEL, args.model, ARG_YOLO>>
        \o (IF SysPromptBlocks(rules, args.system_instruction) /= <<>>
            THEN <<ARG_SYSTEM, Join(<<"\n", "\n">>, SysPromptBlocks(rules, args.system_instruction))>>
            ELSE <<>>)


\* ask_gemini's command (server.py:172-188): cmd, extended by --system and the
\* blocks joined by "\n\n" when there is a block.
AskCommand(args, rules, executable) ==
    LET base == <<executable, args.prompt, ARG_MODEL, _validate_model(args.model), ARG_YOLO>>
        sys_prompt == SysPromptBlocks(rules, args.system_instruction)
    IN IF sys_prompt /= <<>>
       THEN base \o <<ARG_SYSTEM, Join(<<"\n", "\n">>, sys_prompt)>>
       ELSE base

\* smart_context_summary's prompt (server.py:223).
SummaryPrompt(focus) == SUMMARY_PROMPT_HEAD \o focus \o SUMMARY_PROMPT_TAIL

\* smart_context_summary's command with the caller's files in reverse order.
SummaryCommandReversed(args, rules, executable) ==
    <<executable, SummaryPrompt(args.focus), ARG_MODEL, FALLBACK_FLASH_MODEL, ARG_YOLO>>
        \o [i \in 1..Len(args.target_files) |->
               args.target_files[Len(args.target_files) + 1 - i]]
        \o (IF Truthy(rules) THEN <<ARG_SYSTEM, rules>> ELSE <<>>)

\* smart_context_summary's command (server.py:223-231): the model is the
\* literal "gemini-2.5-flash"; the policy text goes after --system as it is.
SummaryCommand(args, rules, executable) ==
    <<executable, SummaryPrompt(args.focus), ARG_MODEL, FALLBACK_FLASH_MODEL, ARG_YOLO>>
        \o args.target_files
        \o (IF Truthy(rules) THEN <<ARG_SYSTEM, rules>> ELSE <<>>)

\* ---------------------------------------------------------------- process runner

\* bytes.decode(): the text, or None for the UnicodeDecodeError it raises.
Decode(stream) == IF stream.ok THEN stream.text ELSE None

\* ask_gemini's result with the exit status not looked at (as in
\* smart_context_summary): a failed child is reported by its standard output.
AskResultIgnoresExit(child, io) ==
    IF io = "lost" THEN TextResult(EXECUTION_ERROR \o CONNECTION_LOST_MSG)
    ELSE IF Decode(child.stdout) = None THEN TextResult(EXECUTION_ERROR \o DECODE_MSG)
    ELSE TextResult(Strip(Decode(child.stdout)))

\* ask_gemini once communicate() is over (server.py:201-210): io = "lost" is
\* communicate raising; every exception of the try block becomes a text.
AskResult(child, io) ==
    IF io = "lost" THEN TextResult(EXECUTION_ERROR \o CONNECTION_LOST_MSG)
    ELSE IF child.returncode /= 0
    THEN IF Decode(child.stderr) = None
         THEN TextResult(EXECUTION_ERROR \o DECODE_MSG)
         ELSE TextResult(GEMINI_ERROR \o Strip(Decode(child.stderr)))
    ELSE IF Decode(child.stdout) = None
         THEN TextResult(EXECUTION_ERROR \o DECODE_MSG)
         ELSE TextResult(Strip(Decode(child.stdout)))

\* smart_context_summary once communicate() is over (server.py:241-244): the
\* exit status and the standard error are not looked at.
SummaryResult(child, io) ==
    IF io = "lost" THEN TextResult(ERROR_PREFIX \o CONNECTION_LOST_MSG)
    ELSE IF Decode(child.stdout) = None
    THEN TextResult(ERROR_PREFIX \o DECODE_MSG)
    ELSE TextResult(SMART_SUMMARY \o Strip(Decode(child.stdout)))

\* asyncio.create_subprocess_exec(*cmd, cwd=str(STATE.cwd)) (server.py:193-199,
\* 234-240): the working directory is read from the session state at the call;
\* the spawn raises when it is no directory or when the host refuses it
\* (spawn = "refused"), and the handler's except clause makes a text of it.
Spawn(f, st, spawn, prefix) ==
    IF PathKind(st.cwd) /= "dir"
    THEN [f EXCEPT !.pc = "done", !.proc_cwd = st.cwd,
                   !.result = TextResult(prefix \o NOT_A_DIRECTORY_MSG)]
    ELSE IF spawn = "refused"
    THEN [f EXCEPT !.pc = "done", !.proc_cwd = st.cwd,
                   !.result = TextResult(prefix \o PERMISSION_MSG)]
    ELSE [f EXCEPT !.pc = "running", !.proc_cwd = st.cwd]

\* ---------------------------------------------------------------- handlers, between awaits

\* list_capabilities after _verify_init (server.py:150-155): the object dumped.
ListResult(st) ==
    [kind |-> "json", text |-> <<>>,
     data |-> [NoData EXCEPT !.models = available_models,
                             !.tools = st.available_gemini_mcps,
                             !.policy_active = Truthy(st.agents_rules)]]

\* initialize_gemini_bridge's return (server.py:139-144): the root and the
\* policy flag are read from the session state after the await of ctx.info.
InitializeReport(st) ==
    [kind |-> "report", text |-> <<>>,
     data |-> [NoData EXCEPT !.root = st.cwd,
                             !.agents = IF Truthy(st.agents_rules) THEN LOADED ELSE NONE_TEXT]]

\* ask_gemini from _verify_init's return to the await of report_progress
\* (server.py:172-191). _get_gemini_path is called before the try block: its
\* FileNotFoundError leaves the handler.
AskBuild(f, st, lookup) ==
    LET executable == _get_gemini_path(lookup) IN
    IF executable = None
    THEN [f EXCEPT !.pc = "done", !.executable = None, !.result = Raise(NOT_FOUND_MSG)]
    ELSE [f EXCEPT !.pc = "progress", !.executable = executable, !.rules = st.agents_rules,
                   !.rules_cwd = st.cwd,
                   !.cmd = AskCommand(f.args, st.agents_rules, executable)]

\* smart_context_summary from _verify_init's return to the await of
\* create_subprocess_exec (server.py:223-240); _get_gemini_path is called
\* before the try block here too.
SummaryBuild(f, st, lookup, spawn) ==
    LET executable == _get_gemini_path(lookup) IN
    IF executable = None
    THEN [f EXCEPT !.pc = "done", !.executable = None, !.result = Raise(NOT_FOUND_MSG)]
    ELSE Spawn([f EXCEPT !.executable = executable, !.rules = st.agents_rules,
                         !.rules_cwd = st.cwd,
                         !.cmd = SummaryCommand(f.args, st.agents_rules, executable)],
               st, spawn, ERROR_PREFIX)

\* ---------------------------------------------------------------- tool calls

\* _verify_init's test taken whatever the session state.
NeedsAutoInitAlways(st) == TRUE

\* _verify_init's test (server.py:91).
NeedsAutoInit(st) == ~st.initialized

\* A fresh frame for a call of `op` with the given arguments.
Frame(op, args) ==
    [Idle EXCEPT !.op = op, !.args = args, !.initialized_at_call = State.initialized]

\* initialize_gemini_bridge(cwd) is called (server.py:116-137): it runs to the
\* await of ctx.warning when the resolved root does not exist, and otherwise
\* through its SessionState writes to the await of ctx.info.
initialize_gemini_bridge(c, cwd) ==
    /\ calls[c].pc = "idle"
    /\ LET root == Resolve(cwd)
           f == Frame("initialize", [NoArgs EXCEPT !.cwd = cwd])
       IN IF PathKind(root) = "missing"
          THEN /\ calls' = [calls EXCEPT ![c] = [f EXCEPT !.pc = "init_warning", !.root = root]]
               /\ UNCHANGED State
          ELSE /\ State' = InitializeWrites(State, root)
               /\ calls' = [calls EXCEPT ![c] = [f EXCEPT !.pc = "init_info", !.root = root,
                                                          !.written = State']]
    /\ UNCHANGED <<env, requested_model, safe_model>>

\* initialize_gemini_bridge resumes after ctx.warning (server.py:121-137):
\* root = Path.cwd(), then the SessionState writes.
initialize_after_warning(c) ==
    /\ calls[c].pc = "init_warning"
    /\ State' = InitializeWrites(State, ProcessCwd)
    /\ calls' = [calls EXCEPT ![c] = [@ EXCEPT !.pc = "init_info", !.root = ProcessCwd,
                                               !.written = State']]
    /\ UNCHANGED <<env, requested_model, safe_model>>

\* initialize_gemini_bridge resumes after ctx.info and returns (server.py:139-144).
initialize_return(c) ==
    /\ calls[c].pc = "init_info"
    /\ calls' = [calls EXCEPT ![c] = [@ EXCEPT !.pc = "done", !.result = InitializeReport(State)]]
    /\ UNCHANGED <<State, env, requested_model, safe_model>>

\* list_capabilities() is called (server.py:149-155): with the session
\* initialized _verify_init awaits nothing and the call returns at once;
\* otherwise it stops at _verify_init's await of ctx.warning.
list_capabilities(c) ==
    /\ calls[c].pc = "idle"
    /\ LET f == Frame("list", NoArgs)
       IN calls' = [calls EXCEPT ![c] =
              IF NeedsAutoInit(State)
              THEN [f EXCEPT !.pc = "verify_warning"]
              ELSE [f EXCEPT !.pc = "done", !.result = ListResult(State)]]
    /\ UNCHANGED <<State, env, requested_model, safe_model>>

\* ask_gemini(prompt, model, system_instruction) is called (server.py:169-191).
ask_gemini(c, prompt, model, system_instruction, lookup) ==
    /\ calls[c].pc = "idle"
    /\ LET f == Frame("ask", [NoArgs EXCEPT !.prompt = prompt, !.model = model,
                                            !.system_instruction = system_instruction])
       IN calls' = [calls EXCEPT ![c] =
              IF NeedsAutoInit(State)
              THEN [f EXCEPT !.pc = "verify_warning"]
              ELSE AskBuild(f, State, lookup)]
    /\ UNCHANGED <<State, env, requested_model, safe_model>>

\* smart_context_summary(target_files, focus) is called (server.py:221-240).
smart_context_summary(c, target_files, focus, lookup, spawn) ==
    /\ calls[c].pc = "idle"
    /\ LET f == Frame("summarize", [NoArgs EXCEPT !.target_files = target_files,
                                                  !.focus = focus])
       IN calls' = [calls EXCEPT ![c] =
              IF NeedsAutoInit(State)
              THEN [f EXCEPT !.pc = "verify_warning"]
              ELSE SummaryBuild(f, State, lookup, spawn)]
    /\ UNCHANGED <<State, env, requested_model, safe_model>>

\* _verify_init resumes after ctx.warning (server.py:98-100), writes the
\* session state and returns into its caller, which runs to its next await.
_verify_init(c, lookup, spawn) ==
    /\ calls[c].pc = "verify_warning"
    /\ State' = AutoInitWrites(State)
    /\ LET f == [calls[c] EXCEPT !.written = State']
       IN calls' = [calls EXCEPT ![c] =
              CASE f.op = "list" -> [f EXCEPT !.pc = "done", !.result = ListResult(State')]
                [] f.op = "ask" -> AskBuild(f, State', lookup)
                [] f.op = "summarize" -> SummaryBuild(f, State', lookup, spawn)]
    /\ UNCHANGED <<env, requested_model, safe_model>>

\* ask_gemini resumes after report_progress and spawns the child
\* (server.py:193-199).
ask_spawn(c, spawn) ==
    /\ calls[c].pc = "progress"
    /\ calls' = [calls EXCEPT ![c] = Spawn(@, State, spawn, EXECUTION_ERROR)]
    /\ UNCHANGED <<State, env, requested_model, safe_model>>

\* The child of an ask_gemini call ends, or communicate() fails (server.py:201-210).
ask_complete(c, child, io) ==
    /\ calls[c].pc = "running"
    /\ calls[c].op = "ask"
    /\ calls' = [calls EXCEPT ![c] =
           [@ EXCEPT !.pc = "done", !.child = IF io = "lost" THEN NoChild ELSE child,
                     !.result = AskResult(child, io)]]
    /\ UNCHANGED <<State, env, requested_model, safe_model>>

\* The child of a smart_context_summary call ends, or communicate() fails
\* (server.py:241-244).
summary_complete(c, child, io) ==
    /\ calls[c].pc = "running"
    /\ calls[c].op = "summarize"
    /\ calls' = [calls EXCEPT ![c] =
           [@ EXCEPT !.pc = "done", !.child = IF io = "lost" THEN NoChild ELSE child,
                     !.result = SummaryResult(child, io)]]
    /\ UNCHANGED <<State, env, requested_model, safe_model>>

\* The framework delivers a finished call's result (or its exception, as an
\* error reply) to the client; the slot is free for the next call.
deliver(c) ==
    /\ calls[c].pc = "done"
    /\ calls' = [calls EXCEPT ![c] = Idle]
    /\ UNCHANGED <<State, env, requested_model, safe_model>>

\* ---------------------------------------------------------------- inputs

\* "hi", "find the bug", "it's", "a.py", "b.py", "boom", "boom\n", " ok\n"
HI == <<"h", "i">>
FIND_THE_BUG == <<"f", "i", "n", "d", " ", "t", "h", "e", " ", "b", "u", "g">>
ITS == <<"i", "t", "'", "s">>
A_PY == <<"a", ".", "p", "y">>
B_PY == <<"b", ".", "p", "y">>
BOOM == <<"b", "o", "o", "m">>
BOOM_NL == <<"b", "o", "o", "m", "\n">>
OK_NL == <<" ", "o", "k", "\n">>

Text(t) == [ok |-> TRUE, text |-> t]
Undecodable == [ok |-> FALSE, text |-> <<>>]

\* What the callers and the host may supply when calls run one at a time.
SeqInputs ==
    [slots |-> {1},
     paths |-> {ProjA, ProjB, ReadmeFile, MissingDir, ".", "/proj/b/../a"},
     prompts |-> {HI, ARG_SYSTEM},
     models |-> {DEFAULT_MODEL, FLASH_9, GPT_4},
     overrides |-> {None, <<>>, RULE_B},
     files |-> SeqsUpTo({A_PY, B_PY, ARG_SYSTEM}, MaxFiles),
     focuses |-> {FIND_THE_BUG, ITS},
     lookups |-> {l \in Lookups : l.existing \in {{}, {USR_LOCAL_GEMINI, HOMEBREW_GEMINI}}},
     spawns |-> {"ok", "refused"},
     children |-> [returncode : {0, 1},
                   stdout : {Text(OK_NL), Undecodable},
                   stderr : {Text(BOOM), Text(BOOM_NL), Undecodable}],
     ios |-> {"ok", "lost"}]

\* What they may supply when calls overlap.
ConcurrentInputs ==
    [slots |-> Calls,
     paths |-> {ProjA, ProjB, ReadmeFile, MissingDir},
     prompts |-> {HI},
     models |-> {FLASH_9},
     overrides |-> {RULE_B},
     files |-> {<<A_PY, B_PY>>},
     focuses |-> {FIND_THE_BUG},
     lookups |-> {[which |-> WHICH_GEMINI, existing |-> {}], [which |-> None, existing |-> {}]},
     spawns |-> {"ok", "refused"},
     children |-> {[returncode |-> 0, stdout |-> Text(OK_NL), stderr |-> Text(<<>>)],
                   [returncode |-> 1, stdout |-> Text(<<>>), stderr |-> Text(BOOM_NL)]},
     ios |-> {"ok", "lost"}]

\* What they may supply where only the configuration files are varied.
ConfigInputs ==
    [slots |-> {1},
     paths |-> {ProjA, MissingDir},
     prompts |-> {HI},
     models |-> {DEFAULT_MODEL},
     overrides |-> {None},
     files |-> {<<A_PY>>},
     focuses |-> {FIND_THE_BUG},
     lookups |-> {[which |-> WHICH_GEMINI, existing |-> {}], [which |-> None, existing |-> {}]},
     spawns |-> {"ok", "refused"},
     children |-> {[returncode |-> 0, stdout |-> Text(OK_NL), stderr |-> Text(<<>>)],
                   [returncode |-> 1, stdout |-> Text(<<>>), stderr |-> Text(BOOM_NL)]},
     ios |-> {"ok", "lost"}]

\* The host environments. For calls one at a time: the policy files varied,
\* over two configurations. For the configuration loader: every pairing of the
\* two candidate files. For overlapping calls: a distinct policy per directory.
SeqEnvs ==
    [agents : {[d \in Dirs |-> CASE d = ProjA -> a [] d = ProjB -> Absent [] d = ProcessCwd -> w] :
                   a \in {TextFile(RULE_A), TextFile(<<>>), Unreadable},
                   w \in {Absent, TextFile(RULE_C)}},
     config : {<<ConfigFile("tools", <<"github">>), ConfigFile("missing", <<>>)>>,
               <<ConfigFile("malformed", <<>>), ConfigFile("nokey", <<>>)>>}]

ConfigEnvs ==
    [agents : {[d \in Dirs |-> IF d = ProjA THEN TextFile(RULE_A) ELSE Absent]},
     config : [1..Len(ConfigPaths) -> ConfigFiles]]

ConcurrentEnvs ==
    [agents : {[d \in Dirs |-> CASE d = ProjA -> TextFile(RULE_A) [] d = ProjB -> TextFile(RULE_B)
                                 [] d = ProcessCwd -> w] :
                   w \in {Absent, TextFile(RULE_C)}},
     config : {<<ConfigFile("malformed", <<>>), ConfigFile("tools", <<"jira", "slack">>)>>}]

\* ---------------------------------------------------------------- specifications

InitWith(envs) ==
    /\ State = InitialState
    /\ env \in envs
    /\ calls = [c \in Calls |-> Idle]
    /\ requested_model = None
    /\ safe_model = None

NextWith(I) ==
    \E c \in I.slots :
        \/ \E cwd \in I.paths : initialize_gemini_bridge(c, cwd)
        \/ initialize_after_warning(c)
        \/ initialize_return(c)
        \/ list_capabilities(c)
        \/ \E prompt \in I.prompts, model \in I.models, system_instruction \in I.overrides,
              lookup \in I.lookups :
               ask_gemini(c, prompt, model, system_instruction, lookup)
        \/ \E target_files \in I.files, focus \in I.focuses, lookup \in I.lookups,
              spawn \in I.spawns :
               smart_context_summary(c, target_files, focus, lookup, spawn)
        \/ \E lookup \in I.lookups, spawn \in I.spawns : _verify_init(c, lookup, spawn)
        \/ \E spawn \in I.spawns : ask_spawn(c, spawn)
        \/ \E child \in I.children, io \in I.ios : ask_complete(c, child, io)
        \/ \E child \in I.children, io \in I.ios : summary_complete(c, child, io)
        \/ deliver(c)

\* Overlapping tool calls on one server process.
Init == InitWith(ConcurrentEnvs)
Next == NextWith(ConcurrentInputs)
Spec == Init /\ [][Next]_vars

\* Tool calls one at a time, with the wider inputs.
InitSeq == InitWith(SeqEnvs)
NextSeq == NextWith(SeqInputs)
SpecSeq == InitSeq /\ [][NextSeq]_vars

\* Tool calls one at a time, over every state of the configuration files.
InitConfig == InitWith(ConfigEnvs)
NextConfig == NextWith(ConfigInputs)
SpecConfig == InitConfig /\ [][NextConfig]_vars

\* _validate_model applied on its own to every model request.
InitValidate ==
    /\ State = InitialState
    /\ env = CHOOSE e \in ConcurrentEnvs : TRUE
    /\ calls = [c \in Calls |-> Idle]
    /\ requested_model \in ModelRequests
    /\ safe_model = None

validate ==
    /\ safe_model = None
    /\ safe_model' = _validate_model(requested_model)
    /\ UNCHANGED <<State, env, calls, requested_model>>

SpecValidate == InitValidate /\ [][validate]_vars

\* ---------------------------------------------------------------- properties

\* s starts with p.
IsPrefix(p, s) == Len(p) <= Len(s) /\ SubSeq(s, 1, Len(p)) = p

\* The frames of the calls of `op` that are in flight or finished.
FramesOf(ops) == {calls[c] : c \in {k \in Calls : calls[k].op \in ops}}

\* The literals the specification names.
SPEC_DEFAULT_MODEL ==
    <<"g", "e", "m", "i", "n", "i", "-", "2", ".", "5", "-", "p", "r", "o">>
SPEC_FAST_MODEL ==
    <<"g", "e", "m", "i", "n", "i", "-", "2", ".", "5", "-", "f", "l", "a", "s", "h">>
SPEC_RULES_HEADER ==
    <<"=", "=", "=", " ", "P", "R", "O", "J", "E", "C", "T", " ", "R", "U", "L", "E", "S", " ", "=", "=", "=">>
SPEC_RULES_FOOTER ==
    <<"=", "=", "=", " ", "E", "N", "D", " ", "R", "U", "L", "E", "S", " ", "=", "=", "=">>

\* The session root is never unset while the session is initialized (the part
\* of C1 that the code keeps).
InitializedImpliesCwdSet == State.initialized => State.cwd /= NoPath

\* C1: whenever the session is initialized, its project root is set, and is
\* either the resolved, existing directory passed to initialize or the
\* process's current directory.
C1_InitializedRootIsDirectory ==
    State.initialized =>
        /\ State.cwd /= NoPath
        /\ \/ State.cwd = ProcessCwd
           \/ /\ PathKind(State.cwd) = "dir"
              /\ \E p \in ConcurrentInputs.paths : State.cwd = Resolve(p)

\* "flash" occurs in m, in any mix of upper and lower case.
HasFlashAnyCase(m) ==
    LET letters == <<{"f", "F"}, {"l", "L"}, {"a", "A"}, {"s", "S"}, {"h", "H"}>>
    IN \E i \in 0..(Len(m) - 5) : \A k \in 1..5 : m[i + k] \in letters[k]

\* C2: validate returns an allow-listed request unchanged, the fast model for
\* any other request containing "flash" in any case, the default model for the
\* rest; validating its result again changes nothing.
C2_ValidateContract ==
    safe_model /= None =>
        /\ InList(requested_model, available_models) => safe_model = requested_model
        /\ (~InList(requested_model, available_models) /\ HasFlashAnyCase(requested_model))
               => safe_model = SPEC_FAST_MODEL
        /\ (~InList(requested_model, available_models) /\ ~HasFlashAnyCase(requested_model))
               => safe_model = SPEC_DEFAULT_MODEL
        /\ _validate_model(safe_model) = safe_model

\* A request outside the allow-list that spells "flash" with a capital letter
\* has been mapped to the fast model.
C2_Witness ==
    /\ safe_model = SPEC_FAST_MODEL
    /\ requested_model = <<"F", "l", "a", "s", "h">>

\* C3: an ask or summarize call that cannot locate the executable ends with a
\* text result; no exception leaves the handler.
C3_ExecutableNotFoundIsText ==
    \A f \in FramesOf({"ask", "summarize"}) :
        (f.pc = "done" /\ f.executable = None) => f.result.kind = "text"

\* The ask calls whose child exited with a non-zero status, its standard error
\* being text.
FailedAsks ==
    {f \in FramesOf({"ask"}) :
        f.pc = "done" /\ f.child.returncode /= 0 /\ f.child.stderr.ok}

\* C4 as stated: an ask whose child exits non-zero with standard error text E
\* ends with a failure text that contains E; no exception leaves the handler.
C4_ResultContainsStderr ==
    \A f \in FailedAsks :
        f.result.kind = "text" /\ Contains(f.child.stderr.text, f.result.text)

\* C4 as amended: an ask whose child exits non-zero with standard error text E
\* ends with the failure text "<U+274C> Gemini Error: " followed by E without
\* its leading and trailing whitespace; no exception leaves the handler.
C4_ResultContainsStrippedStderr ==
    \A f \in FailedAsks :
        /\ f.result.kind = "text"
        /\ IsPrefix(<<"U+274C", " ", "G", "e", "m", "i", "n", "i", " ", "E", "r", "r", "o", "r", ":", " ">>,
                    f.result.text)
        /\ Contains(Strip(f.child.stderr.text), f.result.text)
        /\ (f.child.stderr.text = Strip(f.child.stderr.text)
               => Contains(f.child.stderr.text, f.result.text))

\* An ask has ended whose child exited non-zero writing "boom\n".
C4_Witness ==
    \E f \in FailedAsks :
        /\ f.child.stderr.text = BOOM_NL
        /\ Contains(BOOM, f.result.text)
        /\ ~Contains(BOOM_NL, f.result.text)

\* C5: a summarize whose child exits non-zero ends with a failure result that
\* carries the captured standard error, not a success-labelled summary.
C5_SummaryFailureCarriesStderr ==
    \A f \in FramesOf({"summarize"}) :
        (f.pc = "done" /\ f.child.returncode /= 0 /\ f.child.stderr.ok) =>
            /\ f.result.kind = "text"
            /\ ~IsPrefix(SMART_SUMMARY, f.result.text)
            /\ Contains(Strip(f.child.stderr.text), f.result.text)

\* The ask calls that have built their command, and the summarize calls that have.
BuiltAsks == {f \in FramesOf({"ask"}) : f.cmd /= <<>>}
BuiltSummaries == {f \in FramesOf({"summarize"}) : f.cmd /= <<>>}

\* The text that follows --system at the end of cmd, or None.
SystemText(cmd) ==
    IF Len(cmd) >= 2 /\ cmd[Len(cmd) - 1] = ARG_SYSTEM THEN cmd[Len(cmd)] ELSE None

C7_NoSystemArgument ==
    /\ \A f \in BuiltAsks :
           (~Truthy(f.rules) /\ ~Truthy(f.args.system_instruction)) =>
               \A i \in DOMAIN f.cmd : f.cmd[i] /= ARG_SYSTEM
    /\ \A f \in BuiltSummaries :
           ~Truthy(f.rules) => \A i \in DOMAIN f.cmd : f.cmd[i] /= ARG_SYSTEM

\* C7 as amended: without policy text and without override, ask's command is
\* the five arguments executable, prompt, --model, model, --yolo; without
\* policy text, summarize's command is its five arguments followed by the
\* target files: the builder adds no --system, and an argument equal to
\* --system is the caller's own prompt or one of the caller's own files.
C7_NoSystemFlagAdded ==
    /\ \A f \in BuiltAsks :
           (~Truthy(f.rules) /\ ~Truthy(f.args.system_instruction)) =>
               /\ Len(f.cmd) = 5
               /\ \A i \in DOMAIN f.cmd :
                      f.cmd[i] = ARG_SYSTEM => (i = 2 /\ f.args.prompt = ARG_SYSTEM)
    /\ \A f \in BuiltSummaries :
           ~Truthy(f.rules) =>
               /\ Len(f.cmd) = 5 + Len(f.args.target_files)
               /\ \A i \in DOMAIN f.cmd :
                      f.cmd[i] = ARG_SYSTEM =>
                          (i > 5 /\ f.args.target_files[i - 5] = ARG_SYSTEM)

\* An ask without policy and without override has built its command.
C7_Witness ==
    \E f \in BuiltAsks :
        /\ f.rules = None
        /\ f.args.system_instruction = None
        /\ f.cmd = <<f.executable, HI, ARG_MODEL, f.cmd[4], ARG_YOLO>>

\* A text result that reports a failure: it starts with one of the handlers'
\* error markers.
IsFailureText(t) ==
    \/ IsPrefix(GEMINI_ERROR, t)
    \/ IsPrefix(EXECUTION_ERROR, t)
    \/ IsPrefix(ERROR_PREFIX, t)

\* The frame is an ask or summarize call, made on an initialized session, that
\* has ended in a failure.
EndedInFailure(f) ==
    /\ f.op \in {"ask", "summarize"}
    /\ f.initialized_at_call
    /\ f.pc = "done"
    /\ f.result.kind = "raise" \/ IsFailureText(f.result.text)

\* C8: no step of an ask or summarize call made on an initialized session
\* changes the session state, so a call that ends in a failure has left every
\* field as it was; and when the failure is delivered the session is still
\* initialized and the slot takes the next call.
C8_FailedCallLeavesState ==
    [][\A c \in Calls :
          /\ (calls'[c] /= calls[c] /\ calls'[c].op \in {"ask", "summarize"}
                 /\ calls'[c].initialized_at_call)
                => State' = State
          /\ (EndedInFailure(calls[c]) /\ calls'[c] /= calls[c])
                => (State' = State /\ State'.initialized /\ calls'[c] = Idle)]_vars

\* An ask made on an initialized session has ended in a failure, and the
\* session is as some initialize left it.
C8_Witness ==
    \E c \in Calls :
        /\ EndedInFailure(calls[c])
        /\ calls[c].op = "ask"
        /\ State.initialized
        /\ State.cwd = ProjA
        /\ State.agents_rules = RULE_A

\* C9: summarize's command has a prompt that contains the focus text, the fast
\* model after --model, and, after its five leading arguments, exactly the
\* target files in the caller's order (followed by nothing but --system and
\* the policy text), whatever the session state.
C9_SummaryCommand ==
    \A f \in BuiltSummaries :
        LET n == Len(f.args.target_files) IN
        /\ Contains(f.args.focus, f.cmd[2])
        /\ f.cmd[3] = <<"-", "-", "m", "o", "d", "e", "l">>
        /\ f.cmd[4] = SPEC_FAST_MODEL
        /\ Len(f.cmd) \in {5 + n, 7 + n}
        /\ SubSeq(f.cmd, 6, 5 + n) = f.args.target_files
        /\ Len(f.cmd) = 7 + n => f.cmd[6 + n] = ARG_SYSTEM

\* summarize(["a.py", "b.py"], "find the bug") has built its command.
C9_Witness ==
    \E f \in BuiltSummaries :
        /\ f.args.target_files = <<A_PY, B_PY>>
        /\ f.args.focus = FIND_THE_BUG
        /\ f.pc = "running"

\* A candidate configuration file that yields nothing: missing, or malformed.
Unusable(file) == file.kind \in {"missing", "malformed", "badservers"}

\* The list_capabilities calls that have returned.
ListsDone == {f \in FramesOf({"list"}) : f.pc = "done"}

\* C10 as stated: when the configuration is missing (no candidate file
\* exists) or a candidate file, whichever, is malformed, listCapabilities
\* returns successfully with an empty tool list.
C10_EmptyToolsOnBadConfig ==
    \A f \in ListsDone :
        /\ f.result.kind = "json"
        /\ ((\A i \in DOMAIN env.config : env.config[i].kind = "missing")
              \/ (\E i \in DOMAIN env.config : env.config[i].kind \in {"malformed", "badservers"}))
               => f.result.data.tools = <<>>

\* C10 as amended: listCapabilities returns successfully, however the session
\* was initialized; its tool list is empty when every candidate file is missing
\* or malformed; a well-formed config.json is reported even beside a malformed
\* settings.json, and a well-formed settings.json is reported when config.json
\* is missing or malformed.
C10_EmptyToolsWhenNoUsableConfig ==
    \A f \in ListsDone :
        /\ f.result.kind = "json"
        /\ (\A i \in DOMAIN env.config : Unusable(env.config[i]))
               => f.result.data.tools = <<>>
        /\ env.config[1].kind = "tools" => f.result.data.tools = env.config[1].tools
        /\ (Unusable(env.config[1]) /\ env.config[2].kind = "tools")
               => f.result.data.tools = env.config[2].tools

\* A list_capabilities call that initialized the session itself has returned
\* an empty tool list, config.json being malformed and settings.json missing.
C10_Witness ==
    \E f \in ListsDone :
        /\ ~f.initialized_at_call
        /\ env.config[1].kind = "malformed"
        /\ env.config[2].kind = "missing"
        /\ f.result.data.tools = <<>>

\* Call c makes initialize_gemini_bridge's SessionState writes in this step.
InitializeWriteStep(c) ==
    /\ calls[c].pc \in {"idle", "init_warning"}
    /\ calls'[c].op = "initialize"
    /\ calls'[c].pc = "init_info"

\* C11: with the filesystem unchanged, when initialize(p) has completed for an
\* existing path p and the session state is still as that call left it, a
\* second initialize(p) leaves every SessionState field as it was.
C11_InitializeIdempotent ==
    [][\A a, b \in Calls :
          ( /\ a /= b
            /\ calls[a].op = "initialize"
            /\ calls[a].pc = "done"
            /\ PathKind(Resolve(calls[a].args.cwd)) /= "missing"
            /\ State = calls[a].written
            /\ InitializeWriteStep(b)
            /\ calls'[b].args.cwd = calls[a].args.cwd )
          => State' = State]_vars

\* initialize("/proj/a") has completed and a second initialize("/proj/a") has
\* made its writes: the state is the one the first call left, policy and tool
\* names included.
C11_Witness ==
    \E a, b \in Calls :
        /\ calls[a].op = "initialize" /\ calls[a].pc = "done"
        /\ calls[b].op = "initialize" /\ calls[b].pc = "init_info"
        /\ calls[a].args.cwd = ProjA /\ calls[b].args.cwd = ProjA
        /\ calls[a].written = State /\ calls[b].written = State
        /\ State.cwd = ProjA /\ State.agents_rules = RULE_A
        /\ State.available_gemini_mcps = <<"jira", "slack">>

\* Every finished initialize call has returned its status report, has written
\* initialized = true, and for a path that does not exist has written the
\* process's current directory as the root; the session is initialized.
InitializeEndsInitialized ==
    \A f \in FramesOf({"initialize"}) :
        f.pc = "done" =>
            /\ f.result.kind = "report"
            /\ f.written.initialized
            /\ State.initialized
            /\ PathKind(Resolve(f.args.cwd)) = "missing" => f.written.cwd = ProcessCwd

\* C12: initialize with a path that does not exist does not fail: it returns a
\* status report, sets the root to the process's current directory and ends
\* with the session initialized; every initialize call ends with the session
\* initialized whatever the path check, the policy read and the config load
\* gave, and once it has written initialized it writes the session state no more.
C12_InitializeNeverFails ==
    [][/\ InitializeEndsInitialized'
       /\ \A c \in Calls :
              (calls[c].op = "initialize" /\ calls[c].written /= InitialState
                   /\ calls'[c] /= calls[c])
                  => State' = State]_vars

\* initialize("/nope") has returned its report after storing the process's
\* current directory; the session is initialized.
C12_Witness ==
    \E f \in FramesOf({"initialize"}) :
        /\ f.pc = "done" /\ f.args.cwd = MissingDir
        /\ f.result.kind = "report" /\ f.result.data.root = ProcessCwd
        /\ f.written.cwd = ProcessCwd /\ State.cwd = ProcessCwd /\ State.initialized

\* The calls of the three operations other than initialize that have got past
\* _verify_init.
PastVerifyInit ==
    {f \in FramesOf({"list", "ask", "summarize"}) : f.pc \notin {"idle", "verify_warning"}}

\* C13: one policy for list_capabilities, ask_gemini and smart_context_summary:
\* a call that finds the session uninitialized stores the process's current
\* directory as the root, marks the session initialized and goes on with its
\* work; a call that found it initialized writes nothing; no exception leaves
\* a call other than the one for the executable not being found, and the
\* session is initialized once a call is past _verify_init.
C13_AutoInitPolicy ==
    \A f \in PastVerifyInit :
        /\ State.initialized
        /\ ~f.initialized_at_call => (f.written.initialized /\ f.written.cwd = ProcessCwd)
        /\ f.initialized_at_call => f.written = InitialState
        /\ f.pc \in {"progress", "running", "done"}
        /\ f.pc = "done" =>
               /\ f.result.kind \in {"json", "text", "raise"}
               /\ f.op = "list" => f.result.kind = "json"
               /\ f.result.kind = "raise" => f.executable = None

\* An ask_gemini and a smart_context_summary call that both found the session
\* uninitialized have both auto-initialized in the process's current
\* directory and have their children running.
C13_Witness ==
    \E a, b \in Calls :
        /\ calls[a].op = "ask" /\ calls[b].op = "summarize"
        /\ ~calls[a].initialized_at_call /\ ~calls[b].initialized_at_call
        /\ calls[a].pc = "running" /\ calls[b].pc = "running"
        /\ calls[a].written.cwd = ProcessCwd /\ calls[b].written.cwd = ProcessCwd
        /\ State.initialized /\ State.cwd = ProcessCwd

\* C14: when two overlapping initialize calls for different existing
\* directories have both made their writes, the session state is the state one
\* of them alone produces: root and policy text are those of the same call,
\* and the session is initialized.
C14_ConcurrentInitializeConsistent ==
    \A a, b \in Calls :
        ( /\ a /= b
          /\ calls[a].op = "initialize" /\ calls[b].op = "initialize"
          /\ calls[a].pc \in {"init_info", "done"} /\ calls[b].pc \in {"init_info", "done"}
          /\ PathKind(calls[a].root) = "dir" /\ PathKind(calls[b].root) = "dir"
          /\ calls[a].root /= calls[b].root )
        => \E f \in {calls[a], calls[b]} :
               /\ State = InitializeWrites(InitialState, f.root)
               /\ State = f.written
               /\ State.cwd = f.root
               /\ State.agents_rules = ReadAgentsRules(f.root)
               /\ State.initialized

\* initialize("/proj/a") and initialize("/proj/b") are both suspended at their
\* ctx.info; the state is the second writer's, root and policy of /proj/b.
C14_Witness ==
    \E a, b \in Calls :
        /\ calls[a].op = "initialize" /\ calls[b].op = "initialize"
        /\ calls[a].pc = "init_info" /\ calls[b].pc = "init_info"
        /\ calls[a].root = ProjA /\ calls[b].root = ProjB
        /\ calls[a].written.agents_rules = RULE_A
        /\ State.cwd = ProjB /\ State.agents_rules = RULE_B

\* C15: the session state a call's auto-initialization leaves is the state
\* initialize leaves for the process's current directory from the same state
\* and filesystem, the policy text of an AGENTS.md in that directory included.
C15_AutoInitEqualsInitialize ==
    \A f \in PastVerifyInit :
        ~f.initialized_at_call => f.written = InitializeWrites(InitialState, ProcessCwd)

\* C16: in every command ask or summarize builds while policy text is present,
\* the text after --system starts with the block
\* "=== PROJECT RULES ===\n<policy>\n=== END RULES ===".
C16_PolicyWrappedFirst ==
    \A f \in BuiltAsks \cup BuiltSummaries :
        Truthy(f.rules) =>
            /\ SystemText(f.cmd) /= None
            /\ IsPrefix(SPEC_RULES_HEADER \o <<"\n">> \o f.rules \o <<"\n">> \o SPEC_RULES_FOOTER,
                        SystemText(f.cmd))

\* What the code does instead for summarize: the text after --system is the
\* policy text itself, with no marker line before or after it.
SummaryPolicyUnwrapped ==
    \A f \in BuiltSummaries :
        Truthy(f.rules) =>
            /\ SystemText(f.cmd) = f.rules
            /\ ~Contains(SPEC_RULES_FOOTER, SystemText(f.cmd))

\* The calls whose child process has been spawned.
SpawnedCalls ==
    {f \in FramesOf({"ask", "summarize"}) :
        f.pc = "running" \/ (f.pc = "done" /\ f.child /= NoChild)}

\* C17: the argument vector of every command built, and so of every child
\* spawned, is the executable found, the prompt (the caller's for ask, the one
\* made from the focus for summarize), "--model", a model of the allow-list,
\* "--yolo", and then the rest; no model outside the allow-list is passed.
C17_ArgvShapeAndModel ==
    \A f \in BuiltAsks \cup BuiltSummaries \cup SpawnedCalls :
        /\ Len(f.cmd) >= 5
        /\ f.cmd[1] = f.executable
        /\ f.executable /= None
        /\ f.op = "ask" => f.cmd[2] = f.args.prompt
        /\ f.op = "summarize" => Contains(f.args.focus, f.cmd[2])
        /\ f.cmd[3] = <<"-", "-", "m", "o", "d", "e", "l">>
        /\ InList(f.cmd[4], available_models)
        /\ f.cmd[5] = <<"-", "-", "y", "o", "l", "o">>

\* The child of an ask_gemini call asking for "Flash-9", a model outside the
\* allow-list, is running with the fast model in its arguments.
C17_Witness ==
    \E f \in SpawnedCalls :
        /\ f.op = "ask" /\ f.pc = "running"
        /\ f.args.model = FLASH_9 /\ ~InList(f.args.model, available_models)
        /\ f.cmd[4] = SPEC_FAST_MODEL

\* The session state is as an initialize call now in a slot left it.
LeftByInitialize == \E k \in Calls : calls[k].op = "initialize" /\ State = calls[k].written

\* C18: when initialize returns while the session state is as an initialize
\* call left it (this one or one that overlaps it), its status report names
\* the root this very call stored and says whether this call loaded a policy.
C18_ReportNamesOwnRoot ==
    [][\A c \in Calls :
          ( /\ calls[c].op = "initialize"
            /\ calls[c].pc = "init_info"
            /\ calls'[c].pc = "done"
            /\ LeftByInitialize )
          => /\ calls'[c].result.data.root = calls[c].root
             /\ calls'[c].result.data.agents =
                    IF Truthy(calls[c].written.agents_rules) THEN LOADED ELSE NONE_TEXT]_vars

\* C19: the child of an ask call runs with a working directory and a policy
\* text of one session state: when ask spawns, either the root it passes is the
\* root of the state its policy text was read from, or the policy text it
\* carries is that of the state the root is read from.
C19_SpawnUsesOneSnapshot ==
    [][\A c \in Calls :
          ( /\ calls[c].op = "ask"
            /\ calls[c].pc = "progress"
            /\ calls'[c].pc /= "progress" )
          => \/ calls'[c].proc_cwd = calls[c].rules_cwd
             \/ calls[c].rules = State.agents_rules]_vars

\* C20: while the session state is as a completed initialize call for an
\* existing path left it, no step other than the writes of another initialize
\* call changes the root or the tool names; the auto-initialization of a call
\* that began before that initialize completed does not overwrite them.
C20_RootStableAfterInitialize ==
    [][( /\ \E a \in Calls :
               /\ calls[a].op = "initialize"
               /\ calls[a].pc = "done"
               /\ PathKind(Resolve(calls[a].args.cwd)) /= "missing"
               /\ State = calls[a].written
               /\ State.cwd = calls[a].root
        /\ ~\E c \in Calls : InitializeWriteStep(c) )
       => /\ State'.cwd = State.cwd
          /\ State'.available_gemini_mcps = State.available_gemini_mcps]_vars

====
